---- MODULE Spec2Model ----
(***************************************************************************)
(* Binance funding-rate monitor: the exchange client, the data processor,  *)
(* the notifier and the monitoring cycle of src/src/*.py.                   *)
(*                                                                         *)
(* Numbers.  Funding rates are fixed-point integers counted in units of    *)
(* 0.0001 (so the BTC band hot.min = 0.0005 is 5).  USD amounts are        *)
(* counted in thousands of USD (so one million USD is MILLION = 1000).     *)
(* Percentages of price change are whole percents.  Floating-point         *)
(* rounding, None and NaN field values are outside the value domain.       *)
(*                                                                         *)
(* Collections.  A pandas DataFrame is the sequence of its rows; a Python  *)
(* dict keyed by symbol is the sequence of its <<key, value>> items in     *)
(* iteration order; a record dict is a TLA+ record.  A symbol such as      *)
(* 'BTC/USDT:USDT' is the tuple of its '/'-separated parts.                *)
(* Timestamp fields (timestamp, funding_time, analysis_time) are left out  *)
(* of the rows and records.  User-facing Chinese message texts are written *)
(* with their English renderings.                                          *)
(***************************************************************************)
EXTENDS Integers, Sequences, FiniteSets, TLC

\* Number of entries of Config.SYMBOLS that are monitored.
NumSymbols == 2
\* Largest magnitude of a funding rate fed to the classifier (units of 0.0001).
MaxRate == 210
\* Distance around each open-interest threshold that is sampled (thousands of USD).
OIMargin == 2

(***************************************************************************)
(* config.py                                                               *)
(***************************************************************************)
ConfigSymbols ==
    << <<"BTC", "USDT:USDT">>, <<"ETH", "USDT:USDT">>, <<"BNB", "USDT:USDT">>,
       <<"ADA", "USDT:USDT">>, <<"SOL", "USDT:USDT">>, <<"DOGE", "USDT:USDT">>,
       <<"XRP", "USDT:USDT">>, <<"MATIC", "USDT:USDT">>, <<"AVAX", "USDT:USDT">>,
       <<"DOT", "USDT:USDT">> >>

SYMBOLS ==
    SubSeq(ConfigSymbols, 1, IF NumSymbols < Len(ConfigSymbols)
                             THEN NumSymbols ELSE Len(ConfigSymbols))

FUNDING_RATE_THRESHOLDS ==
    [BTC |-> [normal |-> [min |-> 0, max |-> 3],
              hot |-> [min |-> 5, max |-> 10],
              overheated |-> [min |-> 10, max |-> 9990000]],
     ETH |-> [normal |-> [min |-> 0, max |-> 5],
              hot |-> [min |-> 10, max |-> 15],
              overheated |-> [min |-> 20, max |-> 9990000]],
     DEFAULT |-> [normal |-> [min |-> -50, max |-> 50],
                  hot |-> [min |-> 100, max |-> 150],
                  overheated |-> [min |-> 200, max |-> 9990000]]]

\* Millions of USD.
OI_THRESHOLDS ==
    [BTC |-> [low |-> 1000, high |-> 5000],
     ETH |-> [low |-> 500, high |-> 2000],
     DEFAULT |-> [low |-> 50, high |-> 200]]

\* symbol.split('/')[0]
base_of(symbol) == symbol[1]

get_symbol_threshold(symbol) ==
    IF base_of(symbol) \in DOMAIN FUNDING_RATE_THRESHOLDS
    THEN FUNDING_RATE_THRESHOLDS[base_of(symbol)]
    ELSE FUNDING_RATE_THRESHOLDS["DEFAULT"]

get_oi_threshold(symbol) ==
    IF base_of(symbol) \in DOMAIN OI_THRESHOLDS
    THEN OI_THRESHOLDS[base_of(symbol)]
    ELSE OI_THRESHOLDS["DEFAULT"]

(***************************************************************************)
(* Python built-ins                                                        *)
(***************************************************************************)
\* The empty dict {}.
EmptyDict == [x \in {} |-> x]

\* rec.get(key, default) on a record dict.
Get(rec, key, default) == IF key \in DOMAIN rec THEN rec[key] ELSE default

\* abs(x)
Abs(x) == IF x < 0 THEN -x ELSE x

\* Keys of a symbol-keyed dict, and dict.get(key, default) on it.
Keys(dict) == {dict[i][1] : i \in DOMAIN dict}

DictGet(dict, key, default) ==
    IF key \in Keys(dict)
    THEN dict[CHOOSE i \in DOMAIN dict : dict[i][1] = key][2]
    ELSE default

\* The symbols of the rows of a frame.
FrameSymbols(df) == {df[i].symbol : i \in DOMAIN df}

\* The elements of a list.
Range(list) == {list[i] : i \in DOMAIN list}

\* Truth value of a dict or list: empty is falsy.
Truthy(dict) == DOMAIN dict # {}

\* The orders in which the elements of a set can be iterated.
Orders(S) ==
    {ord \in [1..Cardinality(S) -> S] :
        \A i, j \in 1..Cardinality(S) : i # j => ord[i] # ord[j]}

(***************************************************************************)
(* binance_client.py: what the exchange answers to one call.               *)
(***************************************************************************)
\* A call that raises.
RAISES == [raises |-> TRUE]

Answer(value) == [raises |-> FALSE, value |-> value]

\* Mutant: a symbol's failure ends the loop.
RECURSIVE get_funding_rates_break(_, _)
get_funding_rates_break(symbols, history) ==
    IF symbols = << >> THEN << >>
    ELSE LET symbol == Head(symbols)
             h == history[symbol]
             rest == get_funding_rates_break(Tail(symbols), history)
         IN IF h.raises THEN << >>
            ELSE IF ~Truthy(h.value) THEN rest
            ELSE LET latest_funding == h.value[Len(h.value)]
                 IN << [symbol |-> symbol,
                        base_currency |-> base_of(symbol),
                        funding_rate |-> Get(latest_funding, "fundingRate", 0),
                        annualized_rate |->
                            Get(latest_funding, "fundingRate", 0) * 365 * 3] >>
                    \o rest

\* get_funding_rates: one fetch_funding_rate_history call per symbol.
RECURSIVE get_funding_rates(_, _)
get_funding_rates(symbols, history) ==
    IF symbols = << >> THEN << >>
    ELSE LET symbol == Head(symbols)
             h == history[symbol]
             rest == get_funding_rates(Tail(symbols), history)
         IN IF h.raises THEN rest
            ELSE IF ~Truthy(h.value) THEN rest
            ELSE LET latest_funding == h.value[Len(h.value)]
                 IN << [symbol |-> symbol,
                        base_currency |-> base_of(symbol),
                        funding_rate |-> Get(latest_funding, "fundingRate", 0),
                        annualized_rate |->
                            Get(latest_funding, "fundingRate", 0) * 365 * 3] >>
                    \o rest

\* get_open_interest: fetch_open_interest, then fetch_ticker, per symbol.
RECURSIVE get_open_interest(_, _, _)
get_open_interest(symbols, oi, tickers) ==
    IF symbols = << >> THEN << >>
    ELSE LET symbol == Head(symbols)
             rest == get_open_interest(Tail(symbols), oi, tickers)
         IN IF oi[symbol].raises \/ tickers[symbol].raises THEN rest
            ELSE LET oi_info == oi[symbol].value
                     mark_price == Get(tickers[symbol].value, "last", 0)
                 IN << [symbol |-> symbol,
                        base_currency |-> base_of(symbol),
                        open_interest |-> Get(oi_info, "openInterestAmount", 0),
                        open_interest_usd |->
                            Get(oi_info, "openInterestAmount", 0) * mark_price,
                        mark_price |-> mark_price] >>
                    \o rest

\* get_price_data: one fetch_ticker call per symbol.
RECURSIVE get_price_data(_, _)
get_price_data(symbols, tickers) ==
    IF symbols = << >> THEN << >>
    ELSE LET symbol == Head(symbols)
             rest == get_price_data(Tail(symbols), tickers)
         IN IF tickers[symbol].raises THEN rest
            ELSE LET ticker == tickers[symbol].value
                 IN << [symbol |-> symbol,
                        base_currency |-> base_of(symbol),
                        price |-> Get(ticker, "last", 0),
                        change_24h |-> Get(ticker, "change", 0),
                        change_24h_percent |-> Get(ticker, "percentage", 0),
                        volume_24h |-> Get(ticker, "baseVolume", 0)] >>
                    \o rest

(***************************************************************************)
(* data_processor.py                                                       *)
(***************************************************************************)
\* 1_000_000 USD, in thousands of USD.
MILLION == 1000

\* dict[key] = value: a new key is appended, a present key keeps its place.
DictPut(dict, key, value) ==
    IF key \in Keys(dict)
    THEN [i \in DOMAIN dict |->
            IF dict[i][1] = key THEN <<key, value>> ELSE dict[i]]
    ELSE Append(dict, <<key, value>>)

\* Mutant: a status is given to the rates inside its band, min to max.
_determine_funding_status_banded(funding_rate, thresholds) ==
    LET abs_rate == Abs(funding_rate)
    IN IF /\ abs_rate >= thresholds.overheated.min
          /\ abs_rate <= thresholds.overheated.max THEN "overheated"
       ELSE IF /\ abs_rate >= thresholds.hot.min
               /\ abs_rate <= thresholds.hot.max THEN "hot"
       ELSE "normal"

_determine_funding_status(funding_rate, thresholds) ==
    LET abs_rate == Abs(funding_rate)
    IN IF abs_rate >= thresholds.overheated.min THEN "overheated"
       ELSE IF abs_rate >= thresholds.hot.min THEN "hot"
       ELSE "normal"

\* Mutant: the risk level is taken from the signed rate.
_calculate_risk_level_signed(funding_rate, thresholds) ==
    IF funding_rate >= thresholds.overheated.min THEN 5
    ELSE IF funding_rate >= thresholds.hot.min THEN 3
    ELSE 1

_calculate_risk_level(funding_rate, thresholds) ==
    LET abs_rate == Abs(funding_rate)
    IN IF abs_rate >= thresholds.overheated.min THEN 5
       ELSE IF abs_rate >= thresholds.hot.min THEN 3
       ELSE 1

\* oi_usd / 1_000_000.  The thresholds are whole millions, so the whole part
\* of the quotient decides every comparison as the quotient does.
oi_millions_of(oi_usd) == oi_usd \div MILLION

\* Mutant: the thresholds are compared strictly.
_determine_oi_status_strict(oi_usd, thresholds) ==
    LET oi_millions == oi_millions_of(oi_usd)
    IN IF oi_millions > thresholds.high THEN "high"
       ELSE IF oi_millions > thresholds.low THEN "medium"
       ELSE "low"

_determine_oi_status(oi_usd, thresholds) ==
    LET oi_millions == oi_millions_of(oi_usd)
    IN IF oi_millions >= thresholds.high THEN "high"
       ELSE IF oi_millions >= thresholds.low THEN "medium"
       ELSE "low"

_generate_signal(funding_rate, status, risk_level) ==
    IF status = "overheated"
    THEN IF funding_rate > 0 THEN "long crowding, pullback risk"
         ELSE "short squeeze, possible bounce"
    ELSE IF status = "hot"
    THEN IF funding_rate > 0 THEN "long side warming, risk"
         ELSE "short side cooling, opportunity"
    ELSE "funding rate normal"

\* The record analyze_funding_rate builds for one row.
funding_record(row) ==
    LET thresholds == get_symbol_threshold(row.symbol)
        status == _determine_funding_status(row.funding_rate, thresholds)
        risk_level == _calculate_risk_level(row.funding_rate, thresholds)
    IN [base_currency |-> row.base_currency,
        funding_rate |-> row.funding_rate,
        funding_rate_percent |-> row.funding_rate * 100,
        annualized_rate |-> row.annualized_rate,
        annualized_rate_percent |-> row.annualized_rate * 100,
        status |-> status,
        risk_level |-> risk_level,
        signal |-> _generate_signal(row.funding_rate, status, risk_level)]

RECURSIVE analyze_funding_rows(_, _)
analyze_funding_rows(funding_df, analysis_results) ==
    IF funding_df = << >> THEN analysis_results
    ELSE analyze_funding_rows(
            Tail(funding_df),
            DictPut(analysis_results, Head(funding_df).symbol,
                    funding_record(Head(funding_df))))

analyze_funding_rate(funding_df) == analyze_funding_rows(funding_df, << >>)

\* The record analyze_open_interest builds for one row.
oi_record(row) ==
    [base_currency |-> row.base_currency,
     open_interest |-> row.open_interest,
     open_interest_usd |-> row.open_interest_usd,
     open_interest_usd_millions |-> oi_millions_of(row.open_interest_usd),
     mark_price |-> row.mark_price,
     oi_status |-> _determine_oi_status(row.open_interest_usd,
                                        get_oi_threshold(row.symbol))]

RECURSIVE analyze_oi_rows(_, _)
analyze_oi_rows(oi_df, analysis_results) ==
    IF oi_df = << >> THEN analysis_results
    ELSE analyze_oi_rows(
            Tail(oi_df),
            DictPut(analysis_results, Head(oi_df).symbol, oi_record(Head(oi_df))))

analyze_open_interest(oi_df) == analyze_oi_rows(oi_df, << >>)

\* f"{price_change:.2f}" of a whole percentage.
Format2f(x) == ToString(x) \o ".00"

\* " | ".join(signals)
RECURSIVE Join(_)
Join(signals) ==
    IF Len(signals) = 1 THEN signals[1]
    ELSE signals[1] \o " | " \o Join(Tail(signals))

MARKET_NORMAL == "market normal"

\* Mutant: a hot funding status contributes a message too.
_generate_combined_signal_hot(funding_data, oi_data, price_data) ==
    LET funding_status == Get(funding_data, "status", "normal")
        from_funding ==
            IF Truthy(funding_data) /\ funding_status \in {"overheated", "hot"}
            THEN << "funding rate overheated (long crowding)" >>
            ELSE << >>
        from_oi ==
            IF Truthy(oi_data) /\ Get(oi_data, "oi_status", "low") = "high"
            THEN << "open interest elevated" >>
            ELSE << >>
        price_change == Get(price_data, "change_24h_percent", 0)
        from_price ==
            IF Truthy(price_data) /\ Abs(price_change) > 5
            THEN << "price large move" >>
            ELSE << >>
        signals == from_funding \o from_oi \o from_price
    IN IF Truthy(signals) THEN Join(signals) ELSE MARKET_NORMAL

\* Mutant: the open-interest message is put before the funding message.
_generate_combined_signal_oi_first(funding_data, oi_data, price_data) ==
    LET funding_status == Get(funding_data, "status", "normal")
        funding_rate == Get(funding_data, "funding_rate", 0)
        from_funding ==
            IF Truthy(funding_data) /\ funding_status = "overheated"
            THEN IF funding_rate > 0
                 THEN << "funding rate overheated (long crowding)" >>
                 ELSE << "funding rate overcold (short crowding)" >>
            ELSE << >>
        oi_status == Get(oi_data, "oi_status", "low")
        from_oi ==
            IF Truthy(oi_data) /\ oi_status = "high"
            THEN << "open interest elevated" >>
            ELSE << >>
        price_change == Get(price_data, "change_24h_percent", 0)
        direction == IF price_change > 0 THEN "rise" ELSE "fall"
        from_price ==
            IF Truthy(price_data) /\ Abs(price_change) > 5
            THEN << "price large " \o direction
                    \o "(" \o Format2f(price_change) \o "%)" >>
            ELSE << >>
        signals == from_oi \o from_funding \o from_price
    IN IF Truthy(signals) THEN Join(signals) ELSE MARKET_NORMAL

_generate_combined_signal(funding_data, oi_data, price_data) ==
    LET funding_status == Get(funding_data, "status", "normal")
        funding_rate == Get(funding_data, "funding_rate", 0)
        from_funding ==
            IF Truthy(funding_data) /\ funding_status = "overheated"
            THEN IF funding_rate > 0
                 THEN << "funding rate overheated (long crowding)" >>
                 ELSE << "funding rate overcold (short crowding)" >>
            ELSE << >>
        oi_status == Get(oi_data, "oi_status", "low")
        from_oi ==
            IF Truthy(oi_data) /\ oi_status = "high"
            THEN << "open interest elevated" >>
            ELSE << >>
        price_change == Get(price_data, "change_24h_percent", 0)
        direction == IF price_change > 0 THEN "rise" ELSE "fall"
        from_price ==
            IF Truthy(price_data) /\ Abs(price_change) > 5
            THEN << "price large " \o direction
                    \o "(" \o Format2f(price_change) \o "%)" >>
            ELSE << >>
        signals == from_funding \o from_oi \o from_price
    IN IF Truthy(signals) THEN Join(signals) ELSE MARKET_NORMAL

\* price_dict of combine_analysis.
RECURSIVE price_dict_of(_, _)
price_dict_of(price_data, price_dict) ==
    IF price_data = << >> THEN price_dict
    ELSE price_dict_of(
            Tail(price_data),
            DictPut(price_dict, Head(price_data).symbol,
                    [price |-> Head(price_data).price,
                     change_24h_percent |-> Head(price_data).change_24h_percent,
                     volume_24h |-> Head(price_data).volume_24h]))

\* Mutant: only the symbols that have both analyses.
all_symbols_of_both(funding_analysis, oi_analysis) ==
    Keys(funding_analysis) \cap Keys(oi_analysis)

\* all_symbols of combine_analysis.
all_symbols_of(funding_analysis, oi_analysis) ==
    Keys(funding_analysis) \cup Keys(oi_analysis)

\* Mutant: a missing funding status defaults to 'normal', a missing risk to 1.
combined_record_normal(symbol, funding_data, oi_data, price_info) ==
    [symbol |-> symbol,
     base_currency |-> Get(funding_data, "base_currency", base_of(symbol)),
     funding_rate_percent |-> Get(funding_data, "funding_rate_percent", 0),
     funding_status |-> Get(funding_data, "status", "normal"),
     funding_risk_level |-> Get(funding_data, "risk_level", 1),
     oi_usd_millions |-> Get(oi_data, "open_interest_usd_millions", 0),
     oi_status |-> Get(oi_data, "oi_status", "unknown"),
     price |-> Get(price_info, "price", 0),
     price_change_24h_percent |-> Get(price_info, "change_24h_percent", 0),
     combined_signal |->
         _generate_combined_signal(funding_data, oi_data, price_info)]

\* The record combine_analysis builds for one symbol.
combined_record(symbol, funding_data, oi_data, price_info) ==
    [symbol |-> symbol,
     base_currency |-> Get(funding_data, "base_currency", base_of(symbol)),
     funding_rate_percent |-> Get(funding_data, "funding_rate_percent", 0),
     funding_status |-> Get(funding_data, "status", "unknown"),
     funding_risk_level |-> Get(funding_data, "risk_level", 0),
     oi_usd_millions |-> Get(oi_data, "open_interest_usd_millions", 0),
     oi_status |-> Get(oi_data, "oi_status", "unknown"),
     price |-> Get(price_info, "price", 0),
     price_change_24h_percent |-> Get(price_info, "change_24h_percent", 0),
     combined_signal |->
         _generate_combined_signal(funding_data, oi_data, price_info)]

\* order: the order in which the set all_symbols is iterated, which Python
\* leaves to the hashing of the strings.
combine_analysis(funding_analysis, oi_analysis, price_data, order) ==
    LET price_dict == price_dict_of(price_data, << >>)
    IN [i \in 1..Len(order) |->
          << order[i],
             combined_record(order[i],
                             DictGet(funding_analysis, order[i], EmptyDict),
                             DictGet(oi_analysis, order[i], EmptyDict),
                             DictGet(price_dict, order[i], EmptyDict)) >>]

(***************************************************************************)
(* main.py: FundingMonitor._check_alerts                                   *)
(***************************************************************************)
\* Mutant: a hot funding rate with high open interest alerts too.
alert_condition_hot(data) ==
    \/ data.funding_status \in {"overheated"}
    \/ (data.funding_status = "hot" /\ data.oi_status = "high")

\* Mutant: high open interest alerts whatever the funding status.
alert_condition_high_oi(data) ==
    \/ data.funding_status \in {"overheated"}
    \/ data.oi_status = "high"

alert_condition(data) ==
    \/ data.funding_status \in {"overheated"}
    \/ (data.funding_status = "overheated" /\ data.oi_status = "high")

alert_entry(symbol, data) ==
    [symbol |-> symbol,
     base_currency |-> data.base_currency,
     funding_rate_percent |-> data.funding_rate_percent,
     status |-> data.funding_status,
     signal |-> data.combined_signal,
     priority |-> "high"]

RECURSIVE _check_alerts(_)
_check_alerts(analysis) ==
    IF analysis = << >> THEN << >>
    ELSE LET symbol == Head(analysis)[1]
             data == Head(analysis)[2]
         IN (IF alert_condition(data)
             THEN << alert_entry(symbol, data) >> ELSE << >>)
            \o _check_alerts(Tail(analysis))

(***************************************************************************)
(* notifier.py                                                             *)
(***************************************************************************)
\* Notifier.__init__: bool() of a string is whether it is non-empty.
Notifier(config) ==
    [telegram_enabled |->
         config.TELEGRAM_TOKEN # "" /\ config.TELEGRAM_CHAT_ID # "",
     discord_enabled |-> config.DISCORD_WEBHOOK_URL # ""]

\* What requests.post and raise_for_status can do with one message.
Posts == {"ok", "connection_error", "http_error"}

\* A called function's outcome: the delivery attempts it made and whether an
\* exception left it.
Outcome(attempts, raised) == [attempts |-> attempts, raised |-> raised]

\* Mutant: a failed post leaves _send_telegram_message as an exception.
_send_telegram_message_raising(message, post) ==
    Outcome(<< [channel |-> "telegram", message |-> message, post |-> post] >>,
            post # "ok")

\* _send_telegram_message: every exception is caught and logged.
_send_telegram_message(message, post) ==
    Outcome(<< [channel |-> "telegram", message |-> message, post |-> post] >>,
            FALSE)

\* _send_discord_message: every exception is caught and logged.
_send_discord_message(message, post) ==
    Outcome(<< [channel |-> "discord", message |-> message, post |-> post] >>,
            FALSE)

\* The body shared by send_alerts and send_report after the message is
\* formatted: Telegram, then Discord; an exception leaving the first call
\* skips the second.
send_to_channels(notifier, message, telegram_post, discord_post) ==
    LET telegram ==
            IF notifier.telegram_enabled
            THEN _send_telegram_message(message, telegram_post)
            ELSE Outcome(<< >>, FALSE)
        discord ==
            IF telegram.raised THEN Outcome(<< >>, TRUE)
            ELSE IF notifier.discord_enabled
            THEN _send_discord_message(message, discord_post)
            ELSE Outcome(<< >>, FALSE)
    IN Outcome(telegram.attempts \o discord.attempts, discord.raised)

\* _format_alert_message; alert['symbol'] and alert['base_currency'] raise
\* KeyError on an entry without them.
alert_message_raises(alerts) ==
    \E i \in DOMAIN alerts :
        ~({"symbol", "base_currency"} \subseteq DOMAIN alerts[i])

_format_alert_message(alerts, cycle_type) ==
    [kind |-> "alert",
     cycle_type |-> cycle_type,
     lines |-> [i \in DOMAIN alerts |->
                  [base_currency |-> alerts[i].base_currency,
                   symbol |-> alerts[i].symbol,
                   funding_rate |-> Get(alerts[i], "funding_rate_percent", 0),
                   signal |-> Get(alerts[i], "signal", "")]]]

\* sorted(items, key=|funding_rate_percent|, reverse=True): stable.
sort_key(item) == Abs(Get(item[2], "funding_rate_percent", 0))

RECURSIVE insert_sorted(_, _)
insert_sorted(sorted, item) ==
    IF sorted = << >> THEN << item >>
    ELSE IF sort_key(Head(sorted)) >= sort_key(item)
    THEN << Head(sorted) >> \o insert_sorted(Tail(sorted), item)
    ELSE << item >> \o sorted

RECURSIVE sorted_analysis_of(_)
sorted_analysis_of(analysis) ==
    IF analysis = << >> THEN << >>
    ELSE insert_sorted(
            sorted_analysis_of(SubSeq(analysis, 1, Len(analysis) - 1)),
            analysis[Len(analysis)])

\* _format_report_message; data['base_currency'], data['funding_rate_percent']
\* and data['funding_status'] raise KeyError on a top-3 record without them.
report_message_raises(analysis) ==
    LET top == SubSeq(sorted_analysis_of(analysis), 1,
                      IF Len(analysis) < 3 THEN Len(analysis) ELSE 3)
    IN \E i \in DOMAIN top :
          ~({"base_currency", "funding_rate_percent", "funding_status"}
                \subseteq DOMAIN top[i][2])

_format_report_message(analysis, cycle_type) ==
    IF ~Truthy(analysis)
    THEN [kind |-> "report", cycle_type |-> cycle_type, no_data |-> TRUE]
    ELSE LET top == SubSeq(sorted_analysis_of(analysis), 1,
                           IF Len(analysis) < 3 THEN Len(analysis) ELSE 3)
         IN [kind |-> "report",
             cycle_type |-> cycle_type,
             no_data |-> FALSE,
             total_symbols |-> Len(analysis),
             overheated_count |->
                 Cardinality({i \in DOMAIN analysis :
                     Get(analysis[i][2], "funding_status", "") = "overheated"}),
             hot_count |->
                 Cardinality({i \in DOMAIN analysis :
                     Get(analysis[i][2], "funding_status", "") = "hot"}),
             top3 |-> [i \in DOMAIN top |->
                         [base_currency |-> top[i][2].base_currency,
                          funding_rate |-> top[i][2].funding_rate_percent,
                          status |-> top[i][2].funding_status]]]

\* send_alerts: nothing for an empty list; every exception is caught.
send_alerts(notifier, alerts, cycle_type, telegram_post, discord_post) ==
    IF ~Truthy(alerts) THEN Outcome(<< >>, FALSE)
    ELSE IF alert_message_raises(alerts) THEN Outcome(<< >>, FALSE)
    ELSE Outcome(
            send_to_channels(notifier,
                             _format_alert_message(alerts, cycle_type),
                             telegram_post, discord_post).attempts,
            FALSE)

\* send_report: every exception is caught.
send_report(notifier, analysis, cycle_type, telegram_post, discord_post) ==
    IF report_message_raises(analysis) THEN Outcome(<< >>, FALSE)
    ELSE Outcome(
            send_to_channels(notifier,
                             _format_report_message(analysis, cycle_type),
                             telegram_post, discord_post).attempts,
            FALSE)

(***************************************************************************)
(* State                                                                   *)
(***************************************************************************)
VARIABLES
    pc,                 \* position of the running code
    config,             \* Config: the notification settings of the environment
    cycle_type,         \* args.cycle
    notifier,           \* the Notifier's telegram_enabled, discord_enabled
    exchange,           \* the exchange's answers to the calls of a fetch
    funding_df, oi_df, price_df,
    funding_analysis, oi_analysis, combined_analysis,
    alerts,             \* the list _check_alerts returned
    files,              \* the CSV files _save_data wrote
    sent,               \* the delivery attempts made, in order
    printed,            \* the report _generate_report printed
    steps,              \* the steps of the cycle that ran, in order
    caught,             \* the steps in which a failure was caught and logged
    exception,          \* where the exception that escaped was raised
    exit_code,          \* the exit status of the process
    calls,              \* the calls of Notifier methods made, in order
    classified          \* the results of direct calls of a classifier, in order

vars == << pc, config, cycle_type, notifier, exchange, funding_df, oi_df,
           price_df, funding_analysis, oi_analysis, combined_analysis, alerts,
           files, sent, printed, steps, caught, exception, exit_code, calls,
           classified >>

data_vars == << funding_df, oi_df, price_df, funding_analysis, oi_analysis,
                combined_analysis, alerts >>

(***************************************************************************)
(* Inputs                                                                  *)
(***************************************************************************)
SymbolSet == {SYMBOLS[i] : i \in DOMAIN SYMBOLS}

\* TELEGRAM_TOKEN, TELEGRAM_CHAT_ID, DISCORD_WEBHOOK_URL: unset is ''.
Configs ==
    [TELEGRAM_TOKEN : {"", "token"},
     TELEGRAM_CHAT_ID : {"", "chat"},
     DISCORD_WEBHOOK_URL : {"", "https://discord/webhook"}]

\* Answers of fetch_funding_rate_history(symbol, limit=1): it raises, or
\* returns an empty history, or one entry, with or without 'fundingRate'.
SampleRates == {-20, 7, 20}

FundingAnswers ==
    {RAISES, Answer(<< >>), Answer(<< [datetime |-> "t"] >>)}
        \cup {Answer(<< [fundingRate |-> r, datetime |-> "t"] >>) :
                r \in SampleRates}

\* Answers of fetch_open_interest(symbol): amounts in contracts.
OIAnswers ==
    {RAISES, Answer([openInterestAmount |-> 100000]), Answer([info |-> "x"])}

\* Answers of fetch_ticker(symbol): last price in thousands of USD.
SamplePercentages == {-6, 5, 6}

TickerAnswers ==
    {RAISES, Answer([info |-> "x"])}
        \cup {Answer([last |-> 60, change |-> 3, percentage |-> p,
                      baseVolume |-> 1]) : p \in SamplePercentages}

\* The frames the analysis is run on: every symbol is missing from, or present
\* in, each of the three frames, with a rate on either side of the bands, an
\* open interest above or below them, and a price change on either side of 5%.
FundingFrames ==
    {get_funding_rates(SYMBOLS, h) :
        h \in [SymbolSet -> {RAISES} \cup
                  {Answer(<< [fundingRate |-> r, datetime |-> "t"] >>) :
                      r \in SampleRates}]}

OIFrames ==
    {get_open_interest(SYMBOLS, o, t) :
        o \in [SymbolSet -> OIAnswers],
        t \in [SymbolSet -> {Answer([last |-> 60, change |-> 3,
                                     percentage |-> 5, baseVolume |-> 1])}]}

PriceFrames ==
    {get_price_data(SYMBOLS, t) :
        t \in [SymbolSet -> TickerAnswers \ {Answer([info |-> "x"])}]}

\* One symbol of each entry of the threshold tables (BTC, ETH, DEFAULT).
ThresholdSymbols == {ConfigSymbols[1], ConfigSymbols[2], ConfigSymbols[3]}

\* One-row frames get_funding_rates returns, over every rate of the range.
ClassifyFrames ==
    {get_funding_rates(<< s >>,
         [x \in {s} |-> Answer(<< [fundingRate |-> r, datetime |-> "t"] >>)]) :
        s \in ThresholdSymbols, r \in (-MaxRate)..MaxRate}

InitRun ==
    /\ cycle_type = "5min"
    /\ exchange = [call |-> "none"]
    /\ files = << >>
    /\ sent = << >>
    /\ printed = << >>
    /\ steps = << >>
    /\ caught = {}
    /\ exception = "none"
    /\ exit_code = 0
    /\ calls = << >>
    /\ classified = << >>

InitResults ==
    /\ funding_analysis = << >> /\ oi_analysis = << >>
    /\ combined_analysis = << >>
    /\ alerts = << >>

(***************************************************************************)
(* BinanceClient: one call of a fetch method on the configured symbols.    *)
(***************************************************************************)
InitFetch ==
    /\ InitRun /\ InitResults
    /\ funding_df = << >> /\ oi_df = << >> /\ price_df = << >>
    /\ pc = "client"
    /\ config \in {[TELEGRAM_TOKEN |-> "", TELEGRAM_CHAT_ID |-> "",
                    DISCORD_WEBHOOK_URL |-> ""]}
    /\ notifier = Notifier(config)

CallGetFundingRates ==
    /\ pc = "client"
    /\ \E history \in [SymbolSet -> FundingAnswers] :
          /\ exchange' = [call |-> "get_funding_rates", history |-> history]
          /\ funding_df' = get_funding_rates(SYMBOLS, history)
    /\ pc' = "returned"
    /\ UNCHANGED << config, cycle_type, notifier, oi_df, price_df,
                    funding_analysis, oi_analysis, combined_analysis, alerts,
                    files, sent, printed, steps, caught, exception, exit_code, calls,
                    classified >>

CallGetOpenInterest ==
    /\ pc = "client"
    /\ \E oi \in [SymbolSet -> OIAnswers], tickers \in [SymbolSet -> TickerAnswers] :
          /\ exchange' = [call |-> "get_open_interest", oi |-> oi,
                          tickers |-> tickers]
          /\ oi_df' = get_open_interest(SYMBOLS, oi, tickers)
    /\ pc' = "returned"
    /\ UNCHANGED << config, cycle_type, notifier, funding_df, price_df,
                    funding_analysis, oi_analysis, combined_analysis, alerts,
                    files, sent, printed, steps, caught, exception, exit_code, calls,
                    classified >>

CallGetPriceData ==
    /\ pc = "client"
    /\ \E tickers \in [SymbolSet -> TickerAnswers] :
          /\ exchange' = [call |-> "get_price_data", tickers |-> tickers]
          /\ price_df' = get_price_data(SYMBOLS, tickers)
    /\ pc' = "returned"
    /\ UNCHANGED << config, cycle_type, notifier, funding_df, oi_df,
                    funding_analysis, oi_analysis, combined_analysis, alerts,
                    files, sent, printed, steps, caught, exception, exit_code, calls,
                    classified >>

NextFetch == CallGetFundingRates \/ CallGetOpenInterest \/ CallGetPriceData

SpecFetch == InitFetch /\ [][NextFetch]_vars

(***************************************************************************)
(* DataProcessor: classification of one funding row.                       *)
(***************************************************************************)
InitClassify ==
    /\ InitRun /\ InitResults
    /\ pc = "processor"
    /\ config \in {[TELEGRAM_TOKEN |-> "", TELEGRAM_CHAT_ID |-> "",
                    DISCORD_WEBHOOK_URL |-> ""]}
    /\ notifier = Notifier(config)
    /\ funding_df \in ClassifyFrames
    /\ oi_df = << >> /\ price_df = << >>

CallAnalyzeFundingRate ==
    /\ pc = "processor"
    /\ funding_analysis' = analyze_funding_rate(funding_df)
    /\ pc' = "returned"
    /\ UNCHANGED << config, cycle_type, notifier, exchange, funding_df, oi_df,
                    price_df, oi_analysis, combined_analysis, alerts, files,
                    sent, printed, steps, caught, exception, exit_code, calls,
                    classified >>

NextClassify == CallAnalyzeFundingRate

SpecClassify == InitClassify /\ [][NextClassify]_vars

(***************************************************************************)
(* DataProcessor._determine_oi_status called on two amounts under one      *)
(* entry of thresholds.                                                    *)
(***************************************************************************)
\* The entries of Config.OI_THRESHOLDS, and one entry whose low equals its
\* high.
OIEntries ==
    {OI_THRESHOLDS[k] : k \in DOMAIN OI_THRESHOLDS} \cup {[low |-> 50, high |-> 50]}

\* open_interest_usd values (thousands of USD): nothing, the neighbourhood of
\* every threshold, and an amount above all of them.
OISamples ==
    {0, 1, 9000 * MILLION}
    \cup UNION {{t.low * MILLION + d, t.high * MILLION + d} :
                    t \in OIEntries, d \in (-OIMargin)..OIMargin}

InitOIStatus ==
    /\ InitRun /\ InitResults
    /\ pc = "processor"
    /\ config \in {[TELEGRAM_TOKEN |-> "", TELEGRAM_CHAT_ID |-> "",
                    DISCORD_WEBHOOK_URL |-> ""]}
    /\ notifier = Notifier(config)
    /\ funding_df = << >> /\ oi_df = << >> /\ price_df = << >>

CallDetermineOIStatus ==
    /\ pc = "processor"
    /\ Len(classified) < 2
    /\ \E thresholds \in OIEntries, oi_usd \in OISamples :
          /\ classified # << >> => thresholds = classified[1].thresholds
          /\ classified' =
                Append(classified,
                       [oi_usd |-> oi_usd, thresholds |-> thresholds,
                        oi_status |-> _determine_oi_status(oi_usd, thresholds)])
    /\ UNCHANGED << pc, config, cycle_type, notifier, exchange, funding_df,
                    oi_df, price_df, funding_analysis, oi_analysis,
                    combined_analysis, alerts, files, sent, printed, steps,
                    caught, exception, exit_code, calls >>

NextOIStatus == CallDetermineOIStatus

SpecOIStatus == InitOIStatus /\ [][NextOIStatus]_vars

(***************************************************************************)
(* DataProcessor._determine_funding_status and _calculate_risk_level       *)
(* called on one rate under two entries of thresholds.                     *)
(***************************************************************************)
\* The entries of Config.FUNDING_RATE_THRESHOLDS, and the entries made from
\* them by changing normal.min, normal.max, hot.max and overheated.max.
ThresholdVariants ==
    UNION {{[normal |-> [min |-> a, max |-> b],
             hot |-> [min |-> t.hot.min, max |-> c],
             overheated |-> [min |-> t.overheated.min, max |-> d]] :
              a \in {t.normal.min, 1}, b \in {t.normal.max, 0},
              c \in {t.hot.max, t.hot.min},
              d \in {t.overheated.max, t.overheated.min}} :
           t \in {FUNDING_RATE_THRESHOLDS[k] :
                     k \in DOMAIN FUNDING_RATE_THRESHOLDS}}

InitThresholds ==
    /\ InitRun /\ InitResults
    /\ pc = "processor"
    /\ config \in {[TELEGRAM_TOKEN |-> "", TELEGRAM_CHAT_ID |-> "",
                    DISCORD_WEBHOOK_URL |-> ""]}
    /\ notifier = Notifier(config)
    /\ funding_df = << >> /\ oi_df = << >> /\ price_df = << >>

CallClassifyFundingRate ==
    /\ pc = "processor"
    /\ Len(classified) < 2
    /\ \E thresholds \in
             IF classified = << >> THEN ThresholdVariants
             ELSE {v \in ThresholdVariants :
                     /\ v.hot.min = classified[1].thresholds.hot.min
                     /\ v.overheated.min
                          = classified[1].thresholds.overheated.min},
          funding_rate \in
             IF classified = << >> THEN (-MaxRate)..MaxRate
             ELSE {classified[1].funding_rate} :
          classified' =
             Append(classified,
                    [funding_rate |-> funding_rate,
                     thresholds |-> thresholds,
                     status |-> _determine_funding_status(funding_rate,
                                                          thresholds),
                     risk_level |-> _calculate_risk_level(funding_rate,
                                                          thresholds)])
    /\ UNCHANGED << pc, config, cycle_type, notifier, exchange, funding_df,
                    oi_df, price_df, funding_analysis, oi_analysis,
                    combined_analysis, alerts, files, sent, printed, steps,
                    caught, exception, exit_code, calls >>

NextThresholds == CallClassifyFundingRate

SpecThresholds == InitThresholds /\ [][NextThresholds]_vars

(***************************************************************************)
(* DataProcessor and _check_alerts on the frames the client can return.    *)
(***************************************************************************)
InitAnalysis ==
    /\ InitRun /\ InitResults
    /\ pc = "processor"
    /\ config \in {[TELEGRAM_TOKEN |-> "", TELEGRAM_CHAT_ID |-> "",
                    DISCORD_WEBHOOK_URL |-> ""]}
    /\ notifier = Notifier(config)
    /\ funding_df \in FundingFrames
    /\ oi_df \in OIFrames
    /\ price_df \in PriceFrames

\* analyze_funding_rate, analyze_open_interest and combine_analysis, as lines
\* 70-74 of main.py call them.
CallAnalysis ==
    /\ pc = "processor"
    /\ funding_analysis' = analyze_funding_rate(funding_df)
    /\ oi_analysis' = analyze_open_interest(oi_df)
    /\ \E order \in Orders(all_symbols_of(funding_analysis', oi_analysis')) :
          combined_analysis' =
              combine_analysis(funding_analysis', oi_analysis', price_df, order)
    /\ pc' = "combined"
    /\ UNCHANGED << config, cycle_type, notifier, exchange, funding_df, oi_df,
                    price_df, alerts, files, sent, printed, steps, caught,
                    exception, exit_code, calls,
                    classified >>

CallCheckAlerts ==
    /\ pc = "combined"
    /\ alerts' = _check_alerts(combined_analysis)
    /\ pc' = "checked"
    /\ UNCHANGED << config, cycle_type, notifier, exchange, funding_df, oi_df,
                    price_df, funding_analysis, oi_analysis, combined_analysis,
                    files, sent, printed, steps, caught, exception, exit_code, calls,
                    classified >>

NextAnalysis == CallAnalysis \/ CallCheckAlerts

SpecAnalysis == InitAnalysis /\ [][NextAnalysis]_vars

(***************************************************************************)
(* Notifier: one call of send_alerts or send_report.                       *)
(***************************************************************************)
CycleTypes == {"5min", "1hour"}

\* Combined maps of funding data alone, and a map whose record lacks the
\* fields the report reads.
NotifierAnalyses ==
    UNION {{combine_analysis(analyze_funding_rate(f), << >>, << >>, order) :
               order \in Orders(FrameSymbols(f))} : f \in FundingFrames}
      \cup {<< << SYMBOLS[1], [symbol |-> SYMBOLS[1]] >> >>}

\* The alert lists of those maps, and a list whose entry lacks the symbol.
NotifierAlerts ==
    {_check_alerts(a) :
        a \in NotifierAnalyses \ {<< << SYMBOLS[1], [symbol |-> SYMBOLS[1]] >> >>}}
      \cup {<< [priority |-> "high"] >>}

InitNotifier ==
    /\ InitRun /\ InitResults
    /\ pc = "notifier"
    /\ config \in Configs
    /\ notifier = Notifier(config)
    /\ funding_df = << >> /\ oi_df = << >> /\ price_df = << >>

CallSendAlerts ==
    /\ pc = "notifier"
    /\ \E a \in NotifierAlerts, c \in CycleTypes, tp \in Posts, dp \in Posts :
          LET out == send_alerts(notifier, a, c, tp, dp)
          IN /\ alerts' = a
             /\ cycle_type' = c
             /\ sent' = out.attempts
             /\ exception' = IF out.raised THEN "send_alerts" ELSE "none"
             /\ calls' = Append(calls, [method |-> "send_alerts",
                                        size |-> Len(a)])
    /\ pc' = "sent_alerts"
    /\ UNCHANGED << config, notifier, exchange, funding_df, oi_df, price_df,
                    funding_analysis, oi_analysis, combined_analysis, files,
                    printed, steps, caught, exit_code, classified >>

CallSendReport ==
    /\ pc = "notifier"
    /\ \E a \in NotifierAnalyses, c \in CycleTypes, tp \in Posts, dp \in Posts :
          LET out == send_report(notifier, a, c, tp, dp)
          IN /\ combined_analysis' = a
             /\ cycle_type' = c
             /\ sent' = out.attempts
             /\ exception' = IF out.raised THEN "send_report" ELSE "none"
             /\ calls' = Append(calls, [method |-> "send_report",
                                        size |-> Len(a)])
    /\ pc' = "sent_report"
    /\ UNCHANGED << config, notifier, exchange, funding_df, oi_df, price_df,
                    funding_analysis, oi_analysis, alerts, files, printed,
                    steps, caught, exit_code, classified >>

NextNotifier == CallSendAlerts \/ CallSendReport

SpecNotifier == InitNotifier /\ [][NextNotifier]_vars

(***************************************************************************)
(* main.py: the process, from main() to its exit.                          *)
(***************************************************************************)
\* The CSV files of _save_data, in the order it writes them.
FileKinds == << "funding_rate", "open_interest", "price_data", "analysis" >>

\* Mutant: an exception of a to_csv call leaves _save_data.
_save_data_raising(funding, oi, price, analysis, cycle, failing) ==
    [files |-> << >>,
     failed |-> \E k \in 1..4 :
                   FileKinds[k] = failing
                   /\ << funding, oi, price, analysis >>[k] # << >>,
     raised |-> \E k \in 1..4 :
                   FileKinds[k] = failing
                   /\ << funding, oi, price, analysis >>[k] # << >>]

\* _save_data: each non-empty table is written; failing names the file whose
\* to_csv raises (or "none"); the exception is caught and logged, and the
\* tables after it are not written.
_save_data(funding, oi, price, analysis, cycle, failing) ==
    LET tables == << funding, oi, price, analysis >>
        attempted(k) == tables[k] # << >>
        fails(k) == attempted(k) /\ FileKinds[k] = failing
        reached(k) == \A j \in 1..(k - 1) : ~fails(j)
        written(k) == attempted(k) /\ reached(k) /\ ~fails(k)
        kinds == SelectSeq(<< 1, 2, 3, 4 >>, written)
    IN [files |-> [i \in DOMAIN kinds |->
                     [kind |-> FileKinds[kinds[i]],
                      cycle_type |-> cycle,
                      rows |-> Len(tables[kinds[i]])]],
        failed |-> \E k \in 1..4 : fails(k),
        raised |-> FALSE]

\* _generate_report: nothing for an empty analysis, else a block per symbol.
status_icon(funding_status) ==
    IF funding_status = "overheated" THEN "fire"
    ELSE IF funding_status = "hot" THEN "yellow"
    ELSE IF funding_status = "normal" THEN "green"
    ELSE "white"

_generate_report(analysis, cycle) ==
    IF ~Truthy(analysis) THEN << >>
    ELSE [i \in DOMAIN analysis |->
            [icon |-> status_icon(analysis[i][2].funding_status),
             base_currency |-> analysis[i][2].base_currency,
             funding_rate_percent |-> analysis[i][2].funding_rate_percent,
             oi_usd_millions |-> analysis[i][2].oi_usd_millions,
             price_change_24h |-> analysis[i][2].price_change_24h_percent,
             combined_signal |-> analysis[i][2].combined_signal,
             cycle_type |-> cycle]]

\* The exit status argparse ends the process with on a rejected argument.
ARGPARSE_ERROR == 2

\* parser.parse_args(): argv is the value given to --cycle, '' when absent.
parse_args(argv) ==
    IF argv = "" THEN [accepted |-> TRUE, cycle |-> "5min"]
    ELSE IF argv \in {"5min", "1hour"} THEN [accepted |-> TRUE, cycle |-> argv]
    ELSE [accepted |-> FALSE, cycle |-> argv]

\* Mutant: an empty funding frame does not end the cycle.
after_fetch_funding_continue(df) == "fetch_oi"

\* Lines 56-58: an empty funding frame ends the cycle with a warning.
after_fetch_funding(df) == IF df = << >> THEN "cycle_return" ELSE "fetch_oi"

\* Mutant: the handler of run_monitoring_cycle logs and returns.
run_monitoring_cycle_swallow == "cycle_return"

\* Lines 89-91: the handler of run_monitoring_cycle logs and re-raises.
run_monitoring_cycle_except == "main_except"

\* The steps of a cycle, in the order of run_monitoring_cycle.
CycleSteps ==
    << "fetch_funding", "fetch_oi", "fetch_price", "analyze", "persist",
       "alert", "report" >>

\* Inputs of a run of the process.
Arguments == {"", "5min", "1hour", "15min"}

RunConfigs ==
    {c \in Configs : (c.TELEGRAM_TOKEN = "") = (c.TELEGRAM_CHAT_ID = "")}

RunFundingAnswers ==
    {RAISES} \cup {Answer(<< [fundingRate |-> r, datetime |-> "t"] >>) :
                      r \in {7, 20}}

RunOIAnswers == {RAISES, Answer([openInterestAmount |-> 100000])}

RunTickerAnswers ==
    {RAISES, Answer([last |-> 60, change |-> 3, percentage |-> 6,
                     baseVolume |-> 1])}

RunPosts == {"ok", "http_error"}

RunFailing == {"none", "analysis"}

Init ==
    /\ InitRun /\ InitResults
    /\ pc = "start"
    /\ config \in RunConfigs
    /\ notifier = [telegram_enabled |-> FALSE, discord_enabled |-> FALSE]
    /\ funding_df = << >> /\ oi_df = << >> /\ price_df = << >>

\* setup_logging(): opening the log file can raise, outside main's try.
SetupLogging ==
    /\ pc = "start"
    /\ \E raises \in BOOLEAN :
          IF raises
          THEN pc' = "exit" /\ exception' = "setup_logging" /\ exit_code' = 1
          ELSE pc' = "parse_args" /\ UNCHANGED << exception, exit_code >>
    /\ UNCHANGED << config, cycle_type, notifier, exchange, data_vars, files,
                    sent, printed, steps, caught, calls, classified >>

\* parser.parse_args(): a value outside the choices ends the process.
ParseArgs ==
    /\ pc = "parse_args"
    /\ \E argv \in Arguments :
          /\ cycle_type' = parse_args(argv).cycle
          /\ IF parse_args(argv).accepted
             THEN pc' = "construct" /\ UNCHANGED << exception, exit_code >>
             ELSE /\ pc' = "exit"
                  /\ exception' = "parse_args"
                  /\ exit_code' = ARGPARSE_ERROR
    /\ UNCHANGED << config, notifier, exchange, data_vars, files, sent, printed,
                    steps, caught, calls, classified >>

\* FundingMonitor(): the client's initialisation and os.makedirs can raise.
Construct ==
    /\ pc = "construct"
    /\ \E raises \in BOOLEAN :
          IF raises
          THEN /\ pc' = "main_except"
               /\ exception' = "construct"
               /\ UNCHANGED notifier
          ELSE /\ pc' = "fetch_funding"
               /\ notifier' = Notifier(config)
               /\ UNCHANGED exception
    /\ UNCHANGED << config, cycle_type, exchange, data_vars, files, sent,
                    printed, steps, caught, exit_code, calls,
                    classified >>

FetchFunding ==
    /\ pc = "fetch_funding"
    /\ \E history \in [SymbolSet -> RunFundingAnswers] :
          /\ funding_df' = get_funding_rates(SYMBOLS, history)
          /\ caught' = IF \E s \in SymbolSet : history[s].raises
                       THEN caught \cup {"fetch_funding"} ELSE caught
    /\ steps' = Append(steps, "fetch_funding")
    /\ pc' = after_fetch_funding(funding_df')
    /\ UNCHANGED << config, cycle_type, notifier, exchange, oi_df, price_df,
                    funding_analysis, oi_analysis, combined_analysis, alerts,
                    files, sent, printed, exception, exit_code, calls,
                    classified >>

FetchOI ==
    /\ pc = "fetch_oi"
    /\ \E oi \in [SymbolSet -> RunOIAnswers],
          tickers \in [SymbolSet -> RunTickerAnswers] :
          /\ oi_df' = get_open_interest(SYMBOLS, oi, tickers)
          /\ caught' = IF \E s \in SymbolSet :
                              oi[s].raises \/ tickers[s].raises
                       THEN caught \cup {"fetch_oi"} ELSE caught
    /\ steps' = Append(steps, "fetch_oi")
    /\ pc' = "fetch_price"
    /\ UNCHANGED << config, cycle_type, notifier, exchange, funding_df,
                    price_df, funding_analysis, oi_analysis, combined_analysis,
                    alerts, files, sent, printed, exception, exit_code, calls,
                    classified >>

FetchPrice ==
    /\ pc = "fetch_price"
    /\ \E tickers \in [SymbolSet -> RunTickerAnswers] :
          /\ price_df' = get_price_data(SYMBOLS, tickers)
          /\ caught' = IF \E s \in SymbolSet : tickers[s].raises
                       THEN caught \cup {"fetch_price"} ELSE caught
    /\ steps' = Append(steps, "fetch_price")
    /\ pc' = "analyze"
    /\ UNCHANGED << config, cycle_type, notifier, exchange, funding_df, oi_df,
                    funding_analysis, oi_analysis, combined_analysis, alerts,
                    files, sent, printed, exception, exit_code, calls,
                    classified >>

Analyze ==
    /\ pc = "analyze"
    /\ funding_analysis' = analyze_funding_rate(funding_df)
    /\ oi_analysis' = analyze_open_interest(oi_df)
    /\ \E order \in Orders(all_symbols_of(funding_analysis', oi_analysis')) :
          combined_analysis' =
              combine_analysis(funding_analysis', oi_analysis', price_df, order)
    /\ steps' = Append(steps, "analyze")
    /\ pc' = "persist"
    /\ UNCHANGED << config, cycle_type, notifier, exchange, funding_df, oi_df,
                    price_df, alerts, files, sent, printed, caught, exception,
                    exit_code, calls,
                    classified >>

Persist ==
    /\ pc = "persist"
    /\ \E failing \in RunFailing :
          LET out == _save_data(funding_df, oi_df, price_df, combined_analysis,
                                cycle_type, failing)
          IN /\ files' = out.files
             /\ caught' = IF out.failed /\ ~out.raised
                          THEN caught \cup {"persist"} ELSE caught
             /\ IF out.raised
                THEN pc' = "cycle_except" /\ exception' = "persist"
                ELSE pc' = "alert" /\ UNCHANGED exception
    /\ steps' = Append(steps, "persist")
    /\ UNCHANGED << config, cycle_type, notifier, exchange, data_vars, sent,
                    printed, exit_code, calls,
                    classified >>

\* Lines 80-82: _check_alerts, and send_alerts when the list is not empty.
\* Mutant: send_alerts is called whether or not there are alerts.
alerts_to_send_always(alerts_found) == TRUE

\* if alerts: (the guard of the send_alerts call)
alerts_to_send(alerts_found) == Truthy(alerts_found)

Alert ==
    /\ pc = "alert"
    /\ alerts' = _check_alerts(combined_analysis)
    /\ IF alerts_to_send(alerts')
       THEN \E tp \in RunPosts, dp \in RunPosts :
               LET out == send_alerts(notifier, alerts', cycle_type, tp, dp)
               IN /\ sent' = sent \o out.attempts
                  /\ calls' = Append(calls, [method |-> "send_alerts",
                                             size |-> Len(alerts')])
                  /\ caught' =
                        IF ~out.raised /\ \E i \in DOMAIN out.attempts :
                                              out.attempts[i].post # "ok"
                        THEN caught \cup {"alert"} ELSE caught
                  /\ IF out.raised
                     THEN pc' = "cycle_except" /\ exception' = "alert"
                     ELSE pc' = "report" /\ UNCHANGED exception
       ELSE pc' = "report" /\ UNCHANGED << sent, calls, caught, exception >>
    /\ steps' = Append(steps, "alert")
    /\ UNCHANGED << config, cycle_type, notifier, exchange, funding_df, oi_df,
                    price_df, funding_analysis, oi_analysis, combined_analysis,
                    files, printed, exit_code, classified >>

Report ==
    /\ pc = "report"
    /\ printed' = _generate_report(combined_analysis, cycle_type)
    /\ steps' = Append(steps, "report")
    /\ pc' = "cycle_return"
    /\ UNCHANGED << config, cycle_type, notifier, exchange, data_vars, files,
                    sent, caught, exception, exit_code, calls,
                    classified >>

\* An exception raised in run_monitoring_cycle outside every inner handler.
OrchestrationFault ==
    /\ pc \in {"fetch_funding", "fetch_oi", "fetch_price", "analyze",
               "persist", "alert", "report"}
    /\ exception' = "orchestration"
    /\ pc' = "cycle_except"
    /\ UNCHANGED << config, cycle_type, notifier, exchange, data_vars, files,
                    sent, printed, steps, caught, exit_code, calls,
                    classified >>

CycleExcept ==
    /\ pc = "cycle_except"
    /\ pc' = run_monitoring_cycle_except
    /\ UNCHANGED << config, cycle_type, notifier, exchange, data_vars, files,
                    sent, printed, steps, caught, exception, exit_code, calls,
                    classified >>

\* main's handler: sys.exit(1).
MainExcept ==
    /\ pc = "main_except"
    /\ exit_code' = 1
    /\ pc' = "exit"
    /\ UNCHANGED << config, cycle_type, notifier, exchange, data_vars, files,
                    sent, printed, steps, caught, exception, calls, classified >>

\* run_monitoring_cycle returned; main ends and the process exits with 0.
MainReturn ==
    /\ pc = "cycle_return"
    /\ exit_code' = 0
    /\ pc' = "exit"
    /\ UNCHANGED << config, cycle_type, notifier, exchange, data_vars, files,
                    sent, printed, steps, caught, exception, calls, classified >>

Next ==
    \/ SetupLogging \/ ParseArgs \/ Construct
    \/ FetchFunding \/ FetchOI \/ FetchPrice \/ Analyze \/ Persist \/ Alert
    \/ Report \/ OrchestrationFault \/ CycleExcept \/ MainExcept \/ MainReturn

Spec == Init /\ [][Next]_vars

(***************************************************************************)
(* Properties of the classifier (SpecClassify)                             *)
(***************************************************************************)
\* C1: the status and the risk level of a funding analysis record depend only
\* on |r|: overheated and 5 from overheated.min on, hot and 3 from hot.min on,
\* normal and 1 below; the two always agree and the risk is 1, 3 or 5.
C1_FundingClassification ==
    pc = "returned" =>
        /\ Len(funding_analysis) = Len(funding_df)
        /\ \A i \in DOMAIN funding_analysis :
              LET r == funding_df[i].funding_rate
                  magnitude == IF r < 0 THEN 0 - r ELSE r
                  entry == get_symbol_threshold(funding_df[i].symbol)
                  rec == funding_analysis[i][2]
              IN /\ funding_analysis[i][1] = funding_df[i].symbol
                 /\ magnitude >= entry.overheated.min
                      => rec.status = "overheated" /\ rec.risk_level = 5
                 /\ (magnitude < entry.overheated.min
                        /\ magnitude >= entry.hot.min)
                      => rec.status = "hot" /\ rec.risk_level = 3
                 /\ (magnitude < entry.overheated.min
                        /\ magnitude < entry.hot.min)
                      => rec.status = "normal" /\ rec.risk_level = 1
                 /\ rec.risk_level \in {1, 3, 5}

\* A negative rate beyond the DEFAULT overheated band has been classified.
C1_Witness ==
    /\ pc = "returned"
    /\ Len(funding_analysis) = 1
    /\ funding_df[1].base_currency = "BNB"
    /\ funding_df[1].funding_rate < 0
    /\ funding_analysis[1][2].status = "overheated"
    /\ funding_analysis[1][2].risk_level = 5

(***************************************************************************)
(* Properties of combine_analysis and _check_alerts (SpecAnalysis)         *)
(***************************************************************************)
Combined == pc \in {"combined", "checked"}

\* C2: a combined record's signal is 'market normal' exactly when its funding
\* status is not overheated, its OI status is not high and its price change is
\* within 5% either way, defaulted records included.
C2_MarketNormalIff ==
    Combined =>
        \A i \in DOMAIN combined_analysis :
            LET rec == combined_analysis[i][2]
            IN rec.combined_signal = "market normal"
                  <=> /\ rec.funding_status # "overheated"
                      /\ rec.oi_status # "high"
                      /\ rec.price_change_24h_percent <= 5
                      /\ rec.price_change_24h_percent >= -5

\* A hot record without OI data carries the 'market normal' signal.
C2_Witness ==
    /\ Combined
    /\ \E i \in DOMAIN combined_analysis :
          /\ combined_analysis[i][2].funding_status = "hot"
          /\ combined_analysis[i][2].oi_status = "unknown"
          /\ combined_analysis[i][2].combined_signal = "market normal"

\* C3: _check_alerts returns one entry per overheated record and none for the
\* others; each entry has priority high, status overheated and the record's
\* symbol, base currency, funding rate percent and signal.
C3_AlertsAreTheOverheated ==
    pc = "checked" =>
        /\ \A i \in DOMAIN combined_analysis :
              Cardinality({j \in DOMAIN alerts :
                              alerts[j].symbol = combined_analysis[i][1]})
                = IF combined_analysis[i][2].funding_status = "overheated"
                  THEN 1 ELSE 0
        /\ \A j \in DOMAIN alerts :
              /\ alerts[j].priority = "high"
              /\ alerts[j].status = "overheated"
              /\ \E i \in DOMAIN combined_analysis :
                    LET rec == combined_analysis[i][2]
                    IN /\ combined_analysis[i][1] = alerts[j].symbol
                       /\ alerts[j].base_currency = rec.base_currency
                       /\ alerts[j].funding_rate_percent
                            = rec.funding_rate_percent
                       /\ alerts[j].signal = rec.combined_signal
        /\ Len(alerts)
             = Cardinality({i \in DOMAIN combined_analysis :
                   combined_analysis[i][2].funding_status = "overheated"})

\* One record is overheated, another is hot with high OI: one alert.
C3_Witness ==
    /\ pc = "checked"
    /\ Len(alerts) = 1
    /\ \E i \in DOMAIN combined_analysis :
          /\ combined_analysis[i][2].funding_status = "hot"
          /\ combined_analysis[i][2].oi_status = "high"

\* C5: combine_analysis returns the empty map for empty analyses, defaults the
\* fields of a missing metric (0, 'unknown'), copies those of a present one,
\* and gives a symbol without a price row a price and a change of 0.
C5_CombineDefaults ==
    Combined =>
        /\ (funding_df = << >> /\ oi_df = << >>) => combined_analysis = << >>
        /\ \A i \in DOMAIN combined_analysis :
              LET symbol == combined_analysis[i][1]
                  rec == combined_analysis[i][2]
              IN /\ symbol \notin FrameSymbols(funding_df)
                      => /\ rec.funding_rate_percent = 0
                         /\ rec.funding_risk_level = 0
                         /\ rec.funding_status = "unknown"
                 /\ \A k \in DOMAIN funding_analysis :
                       funding_analysis[k][1] = symbol
                         => /\ rec.funding_rate_percent
                                 = funding_analysis[k][2].funding_rate_percent
                            /\ rec.funding_risk_level
                                 = funding_analysis[k][2].risk_level
                            /\ rec.funding_status
                                 = funding_analysis[k][2].status
                 /\ symbol \notin FrameSymbols(oi_df)
                      => /\ rec.oi_usd_millions = 0
                         /\ rec.oi_status = "unknown"
                 /\ \A k \in DOMAIN oi_analysis :
                       oi_analysis[k][1] = symbol
                         => /\ rec.oi_usd_millions
                                 = oi_analysis[k][2].open_interest_usd_millions
                            /\ rec.oi_status = oi_analysis[k][2].oi_status
                 /\ symbol \notin FrameSymbols(price_df)
                      => /\ rec.price = 0
                         /\ rec.price_change_24h_percent = 0

\* A symbol with OI data only (no funding row, no price row) has a record.
C5_Witness ==
    /\ Combined
    /\ \E i \in DOMAIN combined_analysis :
          /\ combined_analysis[i][1] \notin FrameSymbols(funding_df)
          /\ combined_analysis[i][1] \notin FrameSymbols(price_df)
          /\ combined_analysis[i][2].oi_status = "high"
          /\ combined_analysis[i][2].funding_status = "unknown"

\* C6: the keys of the combined map are the union of the keys of the funding
\* and OI analyses, one record per key, whose symbol field is the key; a
\* symbol of the price rows alone gets no record.
C6_KeysAreUnion ==
    Combined =>
        /\ Keys(combined_analysis)
             = FrameSymbols(funding_df) \cup FrameSymbols(oi_df)
        /\ Len(combined_analysis) = Cardinality(Keys(combined_analysis))
        /\ \A i \in DOMAIN combined_analysis :
              combined_analysis[i][2].symbol = combined_analysis[i][1]

\* A symbol with a price row only, beside a symbol with funding data only.
C6_Witness ==
    /\ Combined
    /\ oi_df = << >>
    /\ Len(combined_analysis) = 1
    /\ FrameSymbols(price_df) \ Keys(combined_analysis) # {}

(***************************************************************************)
(* Properties of the exchange client (SpecFetch)                           *)
(***************************************************************************)
SymbolsOf(df) == [i \in DOMAIN df |-> df[i].symbol]

\* C7: each fetch method returns one row for exactly the requested symbols
\* whose exchange calls succeeded (with a non-empty history, for funding), in
\* request order, each row holding its own symbol's answer.
C7_FetchIsolatesFailures ==
    /\ exchange.call = "get_funding_rates" =>
          LET ok(s) == /\ ~exchange.history[s].raises
                       /\ exchange.history[s].value # << >>
          IN /\ SymbolsOf(funding_df) = SelectSeq(SYMBOLS, ok)
             /\ \A i \in DOMAIN funding_df :
                   LET entry == exchange.history[funding_df[i].symbol].value[1]
                   IN funding_df[i].funding_rate
                        = IF "fundingRate" \in DOMAIN entry
                          THEN entry.fundingRate ELSE 0
    /\ exchange.call = "get_open_interest" =>
          LET ok(s) == /\ ~exchange.oi[s].raises
                       /\ ~exchange.tickers[s].raises
          IN /\ SymbolsOf(oi_df) = SelectSeq(SYMBOLS, ok)
             /\ \A i \in DOMAIN oi_df :
                   LET info == exchange.oi[oi_df[i].symbol].value
                       ticker == exchange.tickers[oi_df[i].symbol].value
                       amount == IF "openInterestAmount" \in DOMAIN info
                                 THEN info.openInterestAmount ELSE 0
                       last == IF "last" \in DOMAIN ticker
                               THEN ticker.last ELSE 0
                   IN /\ oi_df[i].open_interest = amount
                      /\ oi_df[i].mark_price = last
                      /\ oi_df[i].open_interest_usd = amount * last
    /\ exchange.call = "get_price_data" =>
          LET ok(s) == ~exchange.tickers[s].raises
          IN /\ SymbolsOf(price_df) = SelectSeq(SYMBOLS, ok)
             /\ \A i \in DOMAIN price_df :
                   LET ticker == exchange.tickers[price_df[i].symbol].value
                   IN /\ price_df[i].price
                           = IF "last" \in DOMAIN ticker THEN ticker.last ELSE 0
                      /\ price_df[i].change_24h_percent
                           = IF "percentage" \in DOMAIN ticker
                             THEN ticker.percentage ELSE 0

\* The first symbol's funding call raised and the second symbol has its row.
C7_Witness ==
    /\ exchange.call = "get_funding_rates"
    /\ exchange.history[SYMBOLS[1]].raises
    /\ Len(funding_df) >= 1
    /\ funding_df[1].symbol = SYMBOLS[2]
    /\ funding_df[1].funding_rate = 20

(***************************************************************************)
(* Properties of the notifier (SpecNotifier)                               *)
(***************************************************************************)
\* C9: in send_alerts and send_report a failed Telegram delivery does not
\* keep Discord from being attempted, a channel without its credentials or
\* webhook URL is never attempted, and neither method raises.
C9_ChannelsIndependent ==
    pc \in {"sent_alerts", "sent_report"} =>
        LET telegram_configured ==
                config.TELEGRAM_TOKEN # "" /\ config.TELEGRAM_CHAT_ID # ""
            discord_configured == config.DISCORD_WEBHOOK_URL # ""
            formatted ==
                IF pc = "sent_alerts"
                THEN /\ alerts # << >>
                     /\ \A i \in DOMAIN alerts : "symbol" \in DOMAIN alerts[i]
                ELSE \A i \in DOMAIN combined_analysis :
                        "funding_status" \in DOMAIN combined_analysis[i][2]
        IN /\ exception = "none"
           /\ \A i \in DOMAIN sent :
                 /\ sent[i].channel = "telegram" => telegram_configured
                 /\ sent[i].channel = "discord" => discord_configured
           /\ formatted =>
                 [i \in DOMAIN sent |-> sent[i].channel]
                    = (IF telegram_configured THEN << "telegram" >> ELSE << >>)
                      \o (IF discord_configured THEN << "discord" >> ELSE << >>)

\* Both channels enabled, the Telegram post failed, Discord was attempted.
C9_Witness ==
    /\ pc = "sent_alerts"
    /\ Len(sent) = 2
    /\ sent[1].channel = "telegram" /\ sent[1].post = "http_error"
    /\ sent[2].channel = "discord"

(***************************************************************************)
(* Properties of the process (Spec)                                        *)
(***************************************************************************)
\* The process has ended after a cycle that no exception left.
CycleCompleted ==
    pc = "exit" /\ exception = "none" /\ "fetch_funding" \in Range(steps)

\* C4 as stated: whichever metric came back empty, the other metrics are
\* fetched and analyze, persist, alert and report run.
C4_AnyEmptyMetricContinues ==
    (CycleCompleted
        /\ (funding_df = << >> \/ oi_df = << >> \/ price_df = << >>))
      => steps = CycleSteps

\* C4, amended: an empty open-interest or price result does not abort the
\* cycle, every step runs on the partial data; an empty funding result ends
\* the cycle after the funding fetch, without an exception and with exit
\* status 0, and nothing else is fetched, analysed, written, sent or printed.
C4_EmptyMetric ==
    CycleCompleted =>
        IF funding_df = << >>
        THEN /\ steps = << "fetch_funding" >>
             /\ exit_code = 0
             /\ oi_df = << >> /\ price_df = << >>
             /\ combined_analysis = << >>
             /\ files = << >> /\ sent = << >> /\ printed = << >>
        ELSE /\ steps = CycleSteps
             /\ exit_code = 0
             /\ Keys(combined_analysis)
                  = FrameSymbols(funding_df) \cup FrameSymbols(oi_df)

\* Funding came back, open interest and price came back empty, and the cycle
\* ran every step.
C4_Witness ==
    /\ CycleCompleted
    /\ funding_df # << >> /\ oi_df = << >> /\ price_df = << >>
    /\ steps = CycleSteps
    /\ printed # << >>

\* C8: the steps of a cycle run in the order fetch funding, fetch OI, fetch
\* price, analyze, persist, alert, report, each at most once; a failure in the
\* persist step or in alert delivery is caught: it never leaves the cycle as
\* an exception and the later steps still run.
C8_StepOrderAndCaughtFailures ==
    /\ Len(steps) <= Len(CycleSteps)
    /\ steps = SubSeq(CycleSteps, 1, Len(steps))
    /\ exception \notin {"persist", "alert"}
    /\ ("persist" \in caught /\ pc = "alert") => exception = "none"
    /\ ("alert" \in caught /\ pc = "report") => exception = "none"
    /\ (pc = "exit" /\ exception = "none" /\ "persist" \in caught)
          => /\ "alert" \in Range(steps) /\ "report" \in Range(steps)
             /\ exit_code = 0
    /\ (pc = "exit" /\ exception = "none" /\ "alert" \in caught)
          => "report" \in Range(steps) /\ exit_code = 0

\* The persist step and a delivery of the alert both failed, and the cycle ran
\* to its end.
C8_Witness ==
    /\ pc = "exit"
    /\ {"persist", "alert"} \subseteq caught
    /\ steps = CycleSteps
    /\ sent # << >>
    /\ exit_code = 0

\* Where an exception that leaves the constructor or the cycle comes from.
EscapesMain == {"construct", "orchestration", "persist", "alert"}

\* C10 as stated: the exit status is 1 exactly when an exception left the
\* construction of the monitor or run_monitoring_cycle, and 0 otherwise.
C10_ExitOneOrZero ==
    pc = "exit" =>
        /\ exit_code = 1 <=> exception \in EscapesMain
        /\ exit_code # 1 => exit_code = 0

\* C10, amended: once logging is set up and the arguments are accepted, the
\* exit status is 1 exactly when an exception left the construction of the
\* monitor or run_monitoring_cycle (which re-raises it) and 0 otherwise,
\* whatever failures were caught inside; a rejected --cycle value ends the
\* process with status 2 and an exception of setup_logging with status 1,
\* both before the monitor is constructed.
C10_ExitStatus ==
    pc = "exit" =>
        /\ exception \notin {"setup_logging", "parse_args"}
              => /\ exit_code \in {0, 1}
                 /\ exit_code = 1 <=> exception \in EscapesMain
        /\ exception = "parse_args" => exit_code = 2 /\ steps = << >>
        /\ exception = "setup_logging" => exit_code = 1 /\ steps = << >>
        /\ (exception = "none" /\ caught # {}) => exit_code = 0

\* An exception left the cycle after a caught persist failure: status 1.
C10_Witness ==
    /\ pc = "exit"
    /\ exception = "orchestration"
    /\ "persist" \in caught
    /\ exit_code = 1


(***************************************************************************)
(* Properties of the open-interest classifier (SpecOIStatus)               *)
(***************************************************************************)
\* Rank of an open-interest status: low < medium < high.
OIRank(oi_status) ==
    CASE oi_status = "low" -> 0
      [] oi_status = "medium" -> 1
      [] oi_status = "high" -> 2

\* C11: the open-interest status is "high" when oi_usd / 1e6 >= high,
\* "medium" when low <= oi_usd / 1e6 < high and "low" otherwise; no open
\* interest is "low" under every configured entry; and under one entry with
\* low <= high a larger oi_usd never has a smaller rank (low < medium < high).
C11_OIStatusMonotonic ==
    /\ \A i \in DOMAIN classified :
          LET c == classified[i]
              expected ==
                  IF c.oi_usd >= c.thresholds.high * MILLION THEN "high"
                  ELSE IF c.oi_usd >= c.thresholds.low * MILLION THEN "medium"
                  ELSE "low"
          IN /\ c.oi_status = expected
             /\ (c.oi_usd = 0
                   /\ \E k \in DOMAIN OI_THRESHOLDS : c.thresholds = OI_THRESHOLDS[k])
                 => c.oi_status = "low"
    /\ \A i, j \in DOMAIN classified :
          (/\ classified[i].thresholds = classified[j].thresholds
           /\ classified[i].thresholds.low <= classified[i].thresholds.high
           /\ classified[i].oi_usd <= classified[j].oi_usd)
          => OIRank(classified[i].oi_status) <= OIRank(classified[j].oi_status)

\* An amount just under BTC's low threshold is "low" and the amount of exactly
\* BTC's high threshold, classified next, is "high".
C11_Witness ==
    /\ Len(classified) = 2
    /\ classified[1].thresholds = OI_THRESHOLDS.BTC
    /\ classified[1].oi_usd = 1000 * MILLION - 1
    /\ classified[1].oi_status = "low"
    /\ classified[2].oi_usd = 5000 * MILLION
    /\ classified[2].oi_status = "high"


(***************************************************************************)
(* Properties of the combined signal (SpecAnalysis)                        *)
(***************************************************************************)
\* C12: the combined signal of a record to which some axis contributes is the
\* " | "-joined list of at most one message per axis, in the order funding,
\* open interest, price: the funding message only for an overheated status
\* (long crowding for a positive rate, short crowding otherwise), the
\* open-interest message only for a high status, the price message only for a
\* change beyond 5% either way (rise when positive, fall when negative).
C12_SignalClausesInOrder ==
    Combined =>
        \A i \in DOMAIN combined_analysis :
            LET rec == combined_analysis[i][2]
                change == rec.price_change_24h_percent
                funding_rate ==
                    Get(DictGet(funding_analysis, combined_analysis[i][1],
                                EmptyDict), "funding_rate", 0)
                funding_axis ==
                    IF rec.funding_status = "overheated"
                    THEN IF funding_rate > 0
                         THEN << "funding rate overheated (long crowding)" >>
                         ELSE << "funding rate overcold (short crowding)" >>
                    ELSE << >>
                oi_axis ==
                    IF rec.oi_status = "high"
                    THEN << "open interest elevated" >> ELSE << >>
                price_axis ==
                    IF change > 5
                    THEN << "price large rise(" \o ToString(change) \o ".00%)" >>
                    ELSE IF change < -5
                    THEN << "price large fall(" \o ToString(change) \o ".00%)" >>
                    ELSE << >>
                clauses == funding_axis \o oi_axis \o price_axis
            IN clauses # << >>
                 => rec.combined_signal
                      = IF Len(clauses) = 1 THEN clauses[1]
                        ELSE IF Len(clauses) = 2
                        THEN clauses[1] \o " | " \o clauses[2]
                        ELSE clauses[1] \o " | " \o clauses[2]
                                \o " | " \o clauses[3]

\* A record whose three axes all contribute, with a negative rate and a rise
\* of the price, and a record to which only open interest and price contribute.
C12_Witness ==
    /\ Combined
    /\ \E i, j \in DOMAIN combined_analysis :
          /\ combined_analysis[i][2].funding_rate_percent < 0
          /\ combined_analysis[i][2].combined_signal
               = "funding rate overcold (short crowding) | open interest elevated | price large rise(6.00%)"
          /\ combined_analysis[j][2].funding_status # "overheated"
          /\ combined_analysis[j][2].combined_signal
               = "open interest elevated | price large fall(-6.00%)"


(***************************************************************************)
(* Properties of the funding thresholds (SpecThresholds)                   *)
(***************************************************************************)
\* C13: two entries of thresholds with the same hot.min and the same
\* overheated.min give one rate the same status and the same risk level,
\* whatever their normal.min, normal.max, hot.max and overheated.max; and a
\* rate whose magnitude lies between normal.max and hot.min is normal, risk 1.
C13_OnlyMinsDecide ==
    /\ \A i, j \in DOMAIN classified :
          (/\ classified[i].funding_rate = classified[j].funding_rate
           /\ classified[i].thresholds.hot.min
                = classified[j].thresholds.hot.min
           /\ classified[i].thresholds.overheated.min
                = classified[j].thresholds.overheated.min)
          => /\ classified[i].status = classified[j].status
             /\ classified[i].risk_level = classified[j].risk_level
    /\ \A i \in DOMAIN classified :
          LET c == classified[i]
          IN (/\ Abs(c.funding_rate) > c.thresholds.normal.max
              /\ Abs(c.funding_rate) < c.thresholds.hot.min)
             => c.status = "normal" /\ c.risk_level = 1

\* The rate -0.0004 under BTC's entry, between normal.max and hot.min, is
\* normal with risk 1, and so it is under an entry with other max bounds.
C13_Witness ==
    /\ Len(classified) = 2
    /\ classified[1].thresholds = FUNDING_RATE_THRESHOLDS.BTC
    /\ classified[1].funding_rate = -4
    /\ classified[2].thresholds.normal.max # 3
    /\ classified[2].thresholds.hot.max # 10
    /\ classified[2].thresholds.overheated.max # 9990000
    /\ classified[1].status = "normal" /\ classified[1].risk_level = 1
    /\ classified[2].status = "normal" /\ classified[2].risk_level = 1


(***************************************************************************)
(* Properties of the alerts' signals (SpecAnalysis)                        *)
(***************************************************************************)
\* What can follow the first clause of a signal: nothing, the open-interest
\* message, a price message, or both in that order.
ClauseTails ==
    LET oi_part == {"", " | open interest elevated"}
        price_part ==
            {""} \cup {" | price large rise(" \o ToString(p) \o ".00%)" :
                          p \in {q \in SamplePercentages : q > 5}}
                 \cup {" | price large fall(" \o ToString(p) \o ".00%)" :
                          p \in {q \in SamplePercentages : q < -5}}
    IN {o \o p : o \in oi_part, p \in price_part}

\* C14: the signal of every alert _check_alerts returns begins with the
\* funding message of the alert's rate (long crowding for a positive rate,
\* short crowding otherwise), so it is never 'market normal'.
C14_AlertSignalStartsWithFunding ==
    pc = "checked" =>
        \A j \in DOMAIN alerts :
            LET funding_message ==
                    IF alerts[j].funding_rate_percent > 0
                    THEN "funding rate overheated (long crowding)"
                    ELSE "funding rate overcold (short crowding)"
            IN /\ alerts[j].signal # "market normal"
               /\ alerts[j].signal \in {funding_message \o t : t \in ClauseTails}

\* An alert whose signal is the long-crowding message followed by the price
\* message, and an alert whose signal is the short-crowding message alone.
C14_Witness ==
    /\ pc = "checked"
    /\ \E i, j \in DOMAIN alerts :
          /\ alerts[i].signal
               = "funding rate overheated (long crowding) | price large fall(-6.00%)"
          /\ alerts[j].signal = "funding rate overcold (short crowding)"


(***************************************************************************)
(* Properties of the alert step (Spec)                                     *)
(***************************************************************************)
\* C15: in a cycle send_alerts is called at most once and never with an empty
\* list; once the alert step has run, it has been called exactly when some
\* combined record is overheated; and no delivery to a channel is attempted,
\* and no call made, before the persist step has run.
C15_SendAlertsOnceAfterPersist ==
    /\ Len(calls) <= 1
    /\ \A i \in DOMAIN calls :
          calls[i].method = "send_alerts" /\ calls[i].size > 0
    /\ "alert" \in Range(steps)
          => (calls # << >>
                <=> \E i \in DOMAIN combined_analysis :
                       combined_analysis[i][2].funding_status = "overheated")
    /\ "alert" \notin Range(steps) => calls = << >> /\ sent = << >>
    /\ (sent # << >> \/ calls # << >>)
          => \E i, j \in DOMAIN steps :
                i < j /\ steps[i] = "persist" /\ steps[j] = "alert"

\* send_alerts was called once with two alerts and both channels were tried,
\* after a persist step in which a failure was caught.
C15_Witness ==
    /\ Len(calls) = 1
    /\ calls[1].size = 2
    /\ Len(sent) = 2
    /\ "persist" \in caught
    /\ "alert" \in Range(steps)

====
